---- MODULE Spec2Model ----
(***************************************************************************)
(* Model of Extension/src/LanguageServer/cppBuildTaskProvider.ts:          *)
(*   - CppBuildTaskProvider: provideTasks / getTasks / getTask             *)
(*     (build-task synthesis with the this.tasks cache),                   *)
(*   - CppBuildTaskProvider.ensureBuildTaskExists with getRawTasksJson /   *)
(*     getTasksJsonPath (merge of a task into tasks.json),                 *)
(*   - CustomBuildTaskTerminal: open / close / doBuild.                    *)
(* Paths are sequences of path components, file names are sequences of     *)
(* characters, so that basename, dirname, extname, toLowerCase and         *)
(* startsWith are computed and not assumed.                                *)
(***************************************************************************)
EXTENDS Naturals, Sequences, FiniteSets, TLC

VARIABLES
    editor,          \* vscode.window.activeTextEditor: [open, name]
    hasFolder,       \* workspace.getWorkspaceFolder(editor.document.uri) is defined
    folder,          \* fsPath of the workspace folder of the active document
    clientOk,        \* ext.getActiveClient() returns (FALSE: it throws)
    rootState,       \* activeClient.RootUri / its workspace folder: "ok", "noUri", "noTarget"
    isWindows,       \* os.platform() === 'win32'
    userCompiler,    \* result of activeClient.getCurrentCompilerPathAndArgs()
    knownCompilers,  \* result of activeClient.getKnownCompilers()
    tasks,           \* CppBuildTaskProvider.tasks: [set, list]
    called,          \* a synthesis call was made on this provider
    ret,             \* outcome of the latest synthesis call
    prev,            \* outcome of the synthesis call before it (same environment)
    file,            \* .vscode/tasks.json: [state, comments, version, tasks]
    ens,             \* the ensureBuildTaskExists calls: id -> [pc, label, raw, err, hadLabel, wrote]
    watcher,         \* CustomBuildTaskTerminal.fileWatcher: "none", "active", "disposed"
    inflight,        \* number of child processes started by cp.exec and not yet exited
    launches,        \* number of cp.exec launches of the terminals of this task
    events,          \* what writeEmitter / closeEmitter fired, in order
    pty,             \* the terminal's command, args and options: [command, args, cwd]
    lastExec         \* command line and options of the latest cp.exec

envVars == <<editor, hasFolder, folder, clientOk, rootState, isWindows, userCompiler, knownCompilers>>
provVars == <<tasks, called, ret, prev>>
ensVars == <<file, ens>>
termVars == <<watcher, inflight, launches, events, pty, lastExec>>
vars == <<envVars, provVars, ensVars, termVars>>

-----------------------------------------------------------------------------
(* Bounds of the model *)

\* longest list the compiler discovery service supplies
MaxKnown == 2

\* most child processes one terminal launches
MaxLaunches == 3

\* ensureBuildTaskExists calls that can be in progress at once
MaxEnsureCalls == 2

-----------------------------------------------------------------------------
(* Strings of the program *)

CppBuildScriptType == "cppbuild"
CppBuildSourceStr == "C/C++"
failedToParseTasksJson == "Failed to parse tasks.json, possibly due to comments or trailing commas."
NoClientUriError == "No client URI found in getBuildTasks()"
NoTargetError == "No target WorkspaceFolder found in getBuildTasks()"

-----------------------------------------------------------------------------
(* path and string functions *)

Last(s) == s[Len(s)]

\* index of the last "." of a character sequence, 0 if none
LastDot(s) ==
    LET dots == {i \in 1..Len(s) : s[i] = "."}
    IN IF dots = {} THEN 0 ELSE CHOOSE i \in dots : \A j \in dots : j <= i

\* path.extname of a file name without directories: from the last "." on;
\* empty when there is no "." or when the only "." starts the name
ExtName(name) ==
    LET d == LastDot(name)
    IN IF d <= 1 THEN <<>> ELSE SubSeq(name, d, Len(name))

LowerChar(c) ==
    CASE c = "C" -> "c"
      [] c = "H" -> "h"
      [] c = "P" -> "p"
      [] OTHER -> c

\* String.prototype.toLowerCase
ToLowerCase(s) == [i \in 1..Len(s) |-> LowerChar(s[i])]

\* path.basename of a path given as its components
BaseName(p) == IF p = <<>> THEN "" ELSE Last(p)

\* path.dirname of a path given as its components
DirName(p) == IF Len(p) <= 1 THEN <<".">> ELSE SubSeq(p, 1, Len(p) - 1)

\* String.prototype.startsWith("/")
StartsWithSlash(p) == p /= <<>> /\ Head(p) = "/"

\* String.prototype.trim: leading and trailing blank components dropped
RECURSIVE TrimLeft(_)
TrimLeft(p) == IF p /= <<>> /\ Head(p) = " " THEN TrimLeft(Tail(p)) ELSE p

RECURSIVE TrimRight(_)
TrimRight(p) ==
    IF p /= <<>> /\ Last(p) = " " THEN TrimRight(SubSeq(p, 1, Len(p) - 1)) ELSE p

Trim(p) == TrimRight(TrimLeft(p))

\* String.prototype.includes(" ")
IncludesSpace(p) == \E i \in 1..Len(p) : p[i] \in {" ", "Program Files"}

\* String.prototype.startsWith("\"")
StartsWithQuote(p) == p /= <<>> /\ Head(p) = "\""

\* String.prototype.replace(/\\\\/g, "\\"): a doubled separator is an empty
\* component between two separators, and the replacement drops it
NotEmptyComponent(c) == c /= ""

UnDoubleBackslash(p) == SelectSeq(p, NotEmptyComponent)

\* the separator path.join puts between two parts
Sep == IF isWindows THEN "\\" ELSE "/"

-----------------------------------------------------------------------------
(* The environment the provider reads *)

NoEditor == [open |-> FALSE, name |-> <<>>]

FileNames ==
    { <<"m", ".", "c", "p", "p">>,      \* m.cpp
      <<"m", ".", "c">>,                \* m.c
      <<"m", ".", "C">>,                \* m.C
      <<"m", ".", "h">>,                \* m.h
      <<"m", ".", "H", "P", "P">>,      \* m.HPP
      <<"m">>,                          \* no extension
      <<"m", ".", "t">> }               \* not a C/C++ extension

Editors == {NoEditor} \cup {[open |-> TRUE, name |-> n] : n \in FileNames}

RootStates == {"ok", "noUri", "noTarget"}

\* the workspace folders a document can belong to
Folders == { <<"/", "w1">>, <<"/", "Program Files", "w2">> }

\* the records of configs.KnownCompiler the discovery service can supply, in its order
KnownPool ==
    << [path |-> <<"/", "usr", "bin", "g++">>, isC |-> FALSE],
       [path |-> <<"/", "usr", "bin", "clang++">>, isC |-> FALSE],
       [path |-> <<"/", "usr", "bin", "gcc">>, isC |-> TRUE],
       [path |-> <<"/", "usr", "local", "bin", "gcc">>, isC |-> TRUE],
       [path |-> <<"C:", "VC", "bin", "cl.exe">>, isC |-> FALSE] >>

\* the sub-lists of KnownPool of at most MaxKnown records
RECURSIVE SubLists(_, _)
SubLists(s, n) ==
    IF s = <<>> \/ n = 0 THEN {<<>>}
    ELSE SubLists(Tail(s), n) \cup {<<Head(s)>> \o t : t \in SubLists(Tail(s), n - 1)}

KnownCompilerValues ==
    {[defined |-> FALSE, list |-> <<>>]}
        \cup {[defined |-> TRUE, list |-> l] : l \in SubLists(KnownPool, MaxKnown)}

NoUserCompiler ==
    [defined |-> FALSE, compilerPath |-> <<>>, compilerName |-> "", additionalArgs |-> <<>>]

\* util.CompilerPathAndArgs values: no compilerPath configured, a gcc with an
\* argument and blanks around the path, cl.exe with a doubled separator
UserCompilerValues ==
    { NoUserCompiler,
      [defined |-> TRUE, compilerPath |-> <<>>, compilerName |-> "", additionalArgs |-> <<>>],
      [defined |-> TRUE, compilerPath |-> <<" ", "/", "opt", "gcc", " ">>,
       compilerName |-> "gcc", additionalArgs |-> <<"-Wall">>],
      [defined |-> TRUE, compilerPath |-> <<"C:", "", "VC", "bin", "cl.exe">>,
       compilerName |-> "cl.exe", additionalArgs |-> <<>>] }

-----------------------------------------------------------------------------
(* CppBuildTaskProvider.getTask *)

\* mutant of TaskArgs: the user's arguments put before the base arguments
TaskArgsPrepended(baseArgs, compilerArgs) ==
    IF Len(compilerArgs) > 0 THEN compilerArgs \o baseArgs ELSE baseArgs

\* lines 158-160, for a call without definition
TaskArgs(baseArgs, compilerArgs) ==
    IF Len(compilerArgs) > 0 THEN baseArgs \o compilerArgs ELSE baseArgs

\* the Task getTask builds when it does not throw (lines 151-177, 189-197)
GetTask(compilerPath, appendSourceToName, compilerArgs) ==
    LET filePath == "${fileDirname}" \o Sep \o "${fileBasenameNoExtension}"
        compilerPathBase == BaseName(compilerPath)
        taskName == (IF appendSourceToName THEN CppBuildSourceStr \o ": " ELSE "")
                        \o compilerPathBase \o " build active file"
        isCl == compilerPathBase = "cl.exe"
        cwd == IF isCl THEN <<"${workspaceFolder}">> ELSE DirName(compilerPath)
        baseArgs == IF isCl
                    THEN <<"/Zi", "/EHsc", "/Fe:", filePath \o ".exe", "${file}">>
                    ELSE <<"-g", "${file}", "-o",
                           filePath \o (IF isWindows THEN ".exe" ELSE "")>>
        args == TaskArgs(baseArgs, compilerArgs)
        resolvedcompilerPath == IF isCl THEN <<compilerPathBase>> ELSE compilerPath
        quoted == /\ resolvedcompilerPath /= <<>>
                  /\ ~StartsWithQuote(resolvedcompilerPath)
                  /\ IncludesSpace(resolvedcompilerPath)
    IN [name |-> taskName,
        definition |-> [type |-> CppBuildScriptType,
                        label |-> taskName,
                        command |-> [quoted |-> quoted, path |-> resolvedcompilerPath],
                        args |-> args,
                        options |-> [cwd |-> cwd]],
        problemMatchers |-> IF isCl THEN "$msCompile" ELSE "$gcc"]

\* mutant of GetTaskThrows: the checks of lines 181-187 left out
GetTaskNeverThrows == FALSE

\* getTask throws when the client has no root URI or the URI no workspace folder
GetTaskThrows == rootState /= "ok"

GetTaskError == IF rootState = "noUri" THEN NoClientUriError ELSE NoTargetError
-----------------------------------------------------------------------------
(* CppBuildTaskProvider.getTasks *)

HeaderExts ==
    { <<".", "h", "p", "p">>, <<".", "h", "h">>, <<".", "h", "x", "x">>,
      <<".", "h", "+", "+">>, <<".", "h", "p">>, <<".", "h">>, <<".", "i", "i">>,
      <<".", "i", "n", "l">>, <<".", "i", "d", "l">>, <<>> }

CppExts ==
    { <<".", "c", "p", "p">>, <<".", "c", "c">>, <<".", "c", "x", "x">>,
      <<".", "c", "+", "+">>, <<".", "c", "p">>, <<".", "i", "n", "o">>,
      <<".", "i", "p", "p">>, <<".", "t", "c", "c">> }

\* lines 71: isHeader
IsHeader(fileExt) == fileExt = <<>> \/ ToLowerCase(fileExt) \in HeaderExts

\* lines 79-85
FileIsCpp(fileExt) ==
    IF fileExt = <<".", "C">> THEN TRUE ELSE ToLowerCase(fileExt) \in CppExts

FileIsC(fileExt) ==
    IF fileExt = <<".", "C">> THEN TRUE ELSE ToLowerCase(fileExt) = <<".", "c">>

\* lines 104-115: userCompilerPath, <<>> when undefined or empty
UserCompilerPath ==
    IF ~userCompiler.defined THEN <<>>
    ELSE LET p == userCompiler.compilerPath
         IN IF p /= <<>> /\ userCompiler.compilerName /= ""
            THEN LET t == Trim(p)
                 IN IF isWindows /\ StartsWithSlash(t) THEN <<>> ELSE UnDoubleBackslash(t)
            ELSE p

\* lines 122-126: the filter over the known compilers
KeepKnown(info, fileIsCpp, fileIsC) ==
    /\ (fileIsCpp /\ ~info.isC) \/ (fileIsC /\ info.isC)
    /\ userCompiler.defined
    /\ BaseName(info.path) /= userCompiler.compilerName
    /\ ~isWindows \/ ~StartsWithSlash(info.path)

RECURSIVE FilterKnown(_, _, _)
FilterKnown(l, fileIsCpp, fileIsC) ==
    IF l = <<>> THEN <<>>
    ELSE (IF KeepKnown(Head(l), fileIsCpp, fileIsC) THEN <<Head(l).path>> ELSE <<>>)
             \o FilterKnown(Tail(l), fileIsCpp, fileIsC)

\* lines 119-128: knownCompilerPaths, undefined when the service supplies no list
KnownCompilerPaths(fileIsCpp, fileIsC) ==
    IF knownCompilers.defined
    THEN [defined |-> TRUE, list |-> FilterKnown(knownCompilers.list, fileIsCpp, fileIsC)]
    ELSE [defined |-> FALSE, list |-> <<>>]

Unset == [set |-> FALSE, list |-> <<>>]

\* mutant of Cached: the built list is returned and not stored in this.tasks
CachedNotStored(l) == [set |-> FALSE, list |-> <<>>]

Cached(l) == [set |-> TRUE, list |-> l]

\* what a call leaves: returned or thrown, the tasks returned, the new this.tasks,
\* the telemetry events logged, the error message
Returns(l, cache, tele, fromCache) ==
    [kind |-> "ok", tasks |-> l, cache |-> cache, telemetry |-> tele, err |-> "",
     fromCache |-> fromCache]

Throws(cache, msg) ==
    [kind |-> "throw", tasks |-> <<>>, cache |-> cache, telemetry |-> {}, err |-> msg,
     fromCache |-> FALSE]

\* lines 136-147: one task per known compiler path, then the user's compiler
BuildTasks(knownCompilerPaths, userCompilerPath, appendSourceToName) ==
    LET known == [i \in 1..Len(knownCompilerPaths.list) |->
                     GetTask(knownCompilerPaths.list[i], appendSourceToName, <<>>)]
        user == IF userCompilerPath /= <<>>
                THEN <<GetTask(userCompilerPath, appendSourceToName,
                               userCompiler.additionalArgs)>>
                ELSE <<>>
        all == known \o user
    IN IF all /= <<>> /\ GetTaskThrows
       THEN Throws(Cached(<<>>), GetTaskError)
       ELSE Returns(all, Cached(all), {}, FALSE)

\* lines 130-134
NoCompilerFound(knownCompilerPaths, userCompilerPath) ==
    ~knownCompilerPaths.defined /\ userCompilerPath = <<>>

\* lines 55-148
GetTasks(appendSourceToName) ==
    IF tasks.set THEN Returns(tasks.list, tasks, {}, TRUE)
    ELSE IF ~editor.open THEN Returns(<<>>, tasks, {}, FALSE)
    ELSE LET fileExt == ExtName(editor.name)
             fileIsCpp == FileIsCpp(fileExt)
             fileIsC == FileIsC(fileExt)
             knownCompilerPaths == KnownCompilerPaths(fileIsCpp, fileIsC)
         IN IF fileExt = <<>> THEN Returns(<<>>, tasks, {}, FALSE)
            ELSE IF IsHeader(fileExt) THEN Returns(<<>>, tasks, {}, FALSE)
            ELSE IF ~(fileIsCpp \/ fileIsC) THEN Returns(<<>>, tasks, {}, FALSE)
            ELSE IF ~clientOk THEN Returns(<<>>, tasks, {}, FALSE)
            ELSE IF NoCompilerFound(knownCompilerPaths, UserCompilerPath)
                 THEN Returns(<<>>, tasks, {"noCompilerFound"}, FALSE)
            ELSE BuildTasks(knownCompilerPaths, UserCompilerPath, appendSourceToName)

\* lines 37-42
ProvideTasksResult ==
    IF tasks.set THEN Returns(tasks.list, tasks, {}, TRUE) ELSE GetTasks(FALSE)

-----------------------------------------------------------------------------
(* Synthesis calls and the changes of the environment *)

NoCall == [kind |-> "none", tasks |-> <<>>, telemetry |-> {}, err |-> "",
           fromCache |-> FALSE, first |-> FALSE, call |-> ""]

NoPrev == [kind |-> "none", tasks |-> <<>>]

\* what the caller of a synthesis call observes
Observed(out, call) ==
    [kind |-> out.kind, tasks |-> out.tasks, telemetry |-> out.telemetry, err |-> out.err,
     fromCache |-> out.fromCache, first |-> ~called, call |-> call]

ProvideTasks ==
    LET out == ProvideTasksResult
    IN /\ tasks' = out.cache
       /\ prev' = [kind |-> ret.kind, tasks |-> ret.tasks]
       /\ ret' = Observed(out, "provideTasks")
       /\ called' = TRUE
       /\ UNCHANGED <<envVars, ensVars, termVars>>

GetTasksCall(appendSourceToName) ==
    LET out == GetTasks(appendSourceToName)
    IN /\ tasks' = out.cache
       /\ prev' = [kind |-> ret.kind, tasks |-> ret.tasks]
       /\ ret' = Observed(out, IF appendSourceToName THEN "getTasks(true)"
                                                     ELSE "getTasks(false)")
       /\ called' = TRUE
       /\ UNCHANGED <<envVars, ensVars, termVars>>

\* the user activates another editor, or closes the last one
SetActiveEditor(e) ==
    /\ e /= editor
    /\ editor' = e
    /\ ret' = NoCall /\ prev' = NoPrev
    /\ UNCHANGED <<hasFolder, folder, clientOk, rootState, isWindows, userCompiler,
                   knownCompilers,
                   tasks, called, ensVars, termVars>>

\* the language service is enabled or disabled
SetClient(b) ==
    /\ b /= clientOk
    /\ clientOk' = b
    /\ ret' = NoCall /\ prev' = NoPrev
    /\ UNCHANGED <<editor, hasFolder, folder, rootState, isWindows, userCompiler,
                   knownCompilers,
                   tasks, called, ensVars, termVars>>

\* a workspace folder is opened or closed
SetRoot(r) ==
    /\ r /= rootState
    /\ rootState' = r
    /\ ret' = NoCall /\ prev' = NoPrev
    /\ UNCHANGED <<editor, hasFolder, folder, clientOk, isWindows, userCompiler,
                   knownCompilers,
                   tasks, called, ensVars, termVars>>

NoFile == [state |-> "absent", comments |-> FALSE, version |-> "", tasks |-> <<>>]

\* {}: what getRawTasksJson resolves to without a file, and a call not started
EmptyRaw == [version |-> "", tasks |-> <<>>]

IdleCall == [pc |-> "idle", label |-> "", raw |-> EmptyRaw, err |-> "",
             hadLabel |-> FALSE, wrote |-> FALSE]

EnsureCalls == 1..MaxEnsureCalls

InitEnsIdle == file = NoFile /\ ens = [p \in EnsureCalls |-> IdleCall]

\* no terminal was constructed yet
NoPty == [command |-> [quoted |-> FALSE, path |-> <<>>], args |-> <<>>, cwd |-> <<>>]

\* cp.exec was not called yet
NoExec == [done |-> FALSE, command |-> <<>>, args |-> <<>>, cwd |-> <<>>]

InitTermIdle ==
    /\ watcher = "none" /\ inflight = 0 /\ launches = 0 /\ events = <<>>
    /\ pty = NoPty /\ lastExec = NoExec

InitProvider == tasks = Unset /\ called = FALSE /\ ret = NoCall /\ prev = NoPrev

InitSynth ==
    /\ editor \in Editors
    /\ hasFolder = TRUE
    /\ folder = <<"/", "w1">>
    /\ clientOk \in BOOLEAN
    /\ rootState \in RootStates
    /\ isWindows \in BOOLEAN
    /\ userCompiler \in UserCompilerValues
    /\ knownCompilers \in KnownCompilerValues
    /\ InitProvider
    /\ InitEnsIdle
    /\ InitTermIdle

NextSynth ==
    \/ ProvideTasks
    \/ \E a \in BOOLEAN : GetTasksCall(a)
    \/ \E e \in Editors : SetActiveEditor(e)
    \/ \E b \in BOOLEAN : SetClient(b)
    \/ \E r \in RootStates : SetRoot(r)

\* the provider under synthesis calls and a changing environment
SpecSynth == InitSynth /\ [][NextSynth]_vars
-----------------------------------------------------------------------------
(* CustomBuildTaskTerminal *)

Write(text) == [type |-> "write", text |-> text, code |-> 0]

\* mutant of CloseEvent: the exit code tells whether the build failed
CloseEventWithOutcome(error) == [type |-> "close", text |-> "", code |-> IF error THEN 1 ELSE 0]

\* line 302: closeEmitter.fire(0)
CloseEvent(error) == [type |-> "close", text |-> "", code |-> 0]

StartingNotice == "Starting build...\r\n"
ErrorNotice == "Build finished with error:\r\n"
SuccessNotice == "\r\nBuild finished successfully.\r\n"

\* what a child process can have written to stdout
Stdouts == {"", "m.c:1: warning\r\n"}

\* the characters of a name put together
RECURSIVE Str(_)
Str(chars) == IF chars = <<>> THEN "" ELSE Head(chars) \o Str(Tail(chars))

\* path.parse(file).name: the file name without its extension
ParsedName(name) == SubSeq(name, 1, Len(name) - Len(ExtName(name)))

NoEnvironment == [defined |-> FALSE, file |-> <<>>, fileDirname |-> <<>>,
                  fileBasenameNoExtension |-> "", workspaceFolder |-> <<>>]

\* lines 306-322: the values of the placeholders, read from the active editor
AdditionalEnvironment ==
    IF ~editor.open THEN NoEnvironment
    ELSE IF ~hasFolder THEN NoEnvironment
    ELSE [defined |-> TRUE,
          file |-> folder \o <<Str(editor.name)>>,
          fileDirname |-> folder,
          fileBasenameNoExtension |-> Str(ParsedName(editor.name)),
          workspaceFolder |-> folder]

\* util.resolveVariables on one string the program puts in a command, an
\* argument or a working directory: the result as path components; a
\* placeholder without a value stays as it is
ResolveVariables(value, env) ==
    LET filePath == "${fileDirname}" \o Sep \o "${fileBasenameNoExtension}"
    IN IF ~env.defined THEN <<value>>
       ELSE CASE value = "${file}" -> env.file
              [] value = "${workspaceFolder}" -> env.workspaceFolder
              [] value = filePath -> env.fileDirname \o <<env.fileBasenameNoExtension>>
              [] value = filePath \o ".exe" ->
                     env.fileDirname \o <<env.fileBasenameNoExtension \o ".exe">>
              [] OTHER -> <<value>>

\* util.resolveVariables on a path given as its components
RECURSIVE ResolvePath(_, _)
ResolvePath(p, env) ==
    IF p = <<>> THEN <<>> ELSE ResolveVariables(Head(p), env) \o ResolvePath(Tail(p), env)

\* lines 279-284: one argument resolved, and quoted when it includes a space
ActiveArg(value, env) ==
    LET temp == ResolveVariables(value, env)
    IN [text |-> temp, quoted |-> temp /= <<>> /\ IncludesSpace(temp)]

\* lines 286-288: the working directory resolved
ResolvedCwd(cwd, env) == IF cwd /= <<>> THEN ResolvePath(cwd, env) ELSE cwd

\* lines 275-289: doBuild up to cp.exec: this.options.cwd is overwritten with
\* the resolved directory, and one more child process runs
Launch ==
    LET env == AdditionalEnvironment
        cwd == ResolvedCwd(pty.cwd, env)
    IN /\ pty' = [pty EXCEPT !.cwd = cwd]
       /\ lastExec' = [done |-> TRUE,
                       command |-> ResolvePath(pty.command.path, env),
                       args |-> [i \in 1..Len(pty.args) |-> ActiveArg(pty.args[i], env)],
                       cwd |-> cwd]
       /\ inflight' = inflight + 1
       /\ launches' = launches + 1

\* lines 256-266
Open ==
    /\ watcher = "none"
    /\ watcher' = "active"
    /\ events' = Append(events, Write(StartingNotice))
    /\ Launch
    /\ UNCHANGED <<envVars, provVars, ensVars>>

\* mutant of WatcherDelivers: a disposed watcher still calls its handlers
WatcherDeliversWhenDisposed == watcher /= "none"

\* lines 259-262, 271: the handlers are called from createFileSystemWatcher
\* until fileWatcher.dispose()
WatcherDelivers == watcher = "active"

\* lines 260-262: the watcher reports that the marker path was changed, created
\* or deleted, and the handler calls doBuild
MarkerEvent(kind) ==
    /\ WatcherDelivers
    /\ kind \in {"change", "create", "delete"}
    /\ launches < MaxLaunches
    /\ Launch
    /\ UNCHANGED <<watcher, events, envVars, provVars, ensVars>>

\* mutant of ExitOutput: the stdout is written before the notice on failure too
ExitOutputStdoutFirst(error, stdout) ==
    <<Write(stdout), Write(IF error THEN ErrorNotice ELSE SuccessNotice)>>

\* lines 290-299: what the callback of cp.exec writes
ExitOutput(error, stdout) ==
    IF error
    THEN <<Write(ErrorNotice), Write(stdout)>>
    ELSE <<Write(stdout), Write(SuccessNotice)>>

\* lines 289-303: the callback of cp.exec, then the finally of the promise
ChildExit(error, stdout) ==
    /\ inflight > 0
    /\ inflight' = inflight - 1
    /\ events' = events \o ExitOutput(error, stdout) \o <<CloseEvent(error)>>
    /\ UNCHANGED <<watcher, launches, pty, lastExec, envVars, provVars, ensVars>>

\* lines 268-273
Close ==
    /\ watcher = "active"
    /\ watcher' = "disposed"
    /\ UNCHANGED <<inflight, launches, events, pty, lastExec, envVars, provVars, ensVars>>

\* lines 190-193: the task is executed again: a new terminal is constructed
\* with the command, the args and the options object of the task
NewTerminal ==
    /\ watcher = "disposed"
    /\ inflight = 0
    /\ launches < MaxLaunches
    /\ watcher' = "none"
    /\ events' = <<>>
    /\ UNCHANGED <<inflight, launches, pty, lastExec, envVars, provVars, ensVars>>

\* the active document now belongs to another workspace folder
SetFolder(f) ==
    /\ f /= folder
    /\ folder' = f
    /\ UNCHANGED <<editor, hasFolder, clientOk, rootState, isWindows, userCompiler,
                   knownCompilers, provVars, ensVars, termVars>>

\* the editors of the terminal's runs
TermEditors == {NoEditor, [open |-> TRUE, name |-> <<"m", ".", "c">>],
                [open |-> TRUE, name |-> <<"n", ".", "c", "p", "p">>]}

\* the compilers whose task the terminal runs
TermCompilers == { <<"/", "usr", "bin", "gcc">>, <<"C:", "VC", "bin", "cl.exe">> }

\* lines 190-193: the terminal of a task built by getTask
TerminalOf(task) == [command |-> task.definition.command,
                     args |-> task.definition.args,
                     cwd |-> task.definition.options.cwd]

InitEnvFixed ==
    /\ editor = [open |-> TRUE, name |-> <<"m", ".", "c">>]
    /\ hasFolder = TRUE
    /\ folder = <<"/", "w1">>
    /\ clientOk = TRUE
    /\ rootState = "ok"
    /\ isWindows = FALSE
    /\ userCompiler = NoUserCompiler
    /\ knownCompilers = [defined |-> FALSE, list |-> <<>>]

InitTerm ==
    /\ InitEnvFixed /\ InitProvider /\ InitEnsIdle
    /\ watcher = "none" /\ inflight = 0 /\ launches = 0 /\ events = <<>>
    /\ pty \in {TerminalOf(GetTask(c, FALSE, <<>>)) : c \in TermCompilers}
    /\ lastExec = NoExec

NextTerm ==
    \/ Open
    \/ \E kind \in {"change", "create", "delete"} : MarkerEvent(kind)
    \/ \E error \in BOOLEAN, stdout \in Stdouts : ChildExit(error, stdout)
    \/ Close
    \/ NewTerminal
    \/ \E e \in TermEditors : SetActiveEditor(e)
    \/ \E f \in Folders : SetFolder(f)

\* one terminal from its construction on
SpecTerm == InitTerm /\ [][NextTerm]_vars

-----------------------------------------------------------------------------
(* ensureBuildTaskExists, getRawTasksJson, getTasksJsonPath *)

NoSelectedTaskError == "Failed to get selectedTask in ensureBuildTaskExists()"
NoTasksJsonPathError == "Failed to get tasksJsonPath in ensureBuildTaskExists()"

\* lines 347-357: getTasksJsonPath() returns a path
TasksJsonPathDefined == editor.open /\ hasFolder

\* lines 208, 223: rawTasksJson.tasks.find(task => task.label === taskName)
FindLabel(list, taskName) ==
    \E i \in 1..Len(list) : list[i].label /= "" /\ list[i].label = taskName

\* mutant of SelectedInFile: the early return of lines 209-211 left out
SelectedInFileIgnored(raw, taskName) == FALSE

\* lines 208-211: the task asked for is in the list that was read
SelectedInFile(raw, taskName) == FindLabel(raw.tasks, taskName)

\* mutant of ParseFails: jsonc.parse is tolerant and the catch is never entered
ParseNeverFails == FALSE

\* lines 337-341: jsonc.parse(fileContents) throws
ParseFails == file.state = "bad"

\* lines 325-345: what getRawTasksJson resolves to (comments are not in it)
RawTasksJson ==
    IF ~TasksJsonPathDefined \/ file.state /= "ok" THEN EmptyRaw
    ELSE [version |-> file.version, tasks |-> file.tasks]

\* lines 224-228: the record pushed for the selected task
TaskRecord(selectedTask) ==
    [type |-> selectedTask.definition.type,
     label |-> selectedTask.definition.label,
     command |-> selectedTask.definition.command,
     args |-> selectedTask.definition.args,
     options |-> selectedTask.definition.options,
     problemMatcher |-> selectedTask.problemMatchers,
     group |-> [kind |-> "build", isDefault |-> TRUE]]

\* lines 223-230
PushIfAbsent(list, selectedTask) ==
    IF FindLabel(list, selectedTask.definition.label) THEN list
    ELSE Append(list, TaskRecord(selectedTask))

\* line 239: JSON.stringify(rawTasksJson) written to tasks.json
Stringified(raw) ==
    [state |-> "ok", comments |-> FALSE, version |-> raw.version, tasks |-> raw.tasks]

\* the labels callers ask for: two a source-prefixed synthesis gives, one a plain
\* synthesis gives, the user's own task, and one no synthesis gives
TaskLabels ==
    { "C/C++: g++ build active file", "C/C++: clang++ build active file",
      "g++ build active file", "build", "C/C++: gcc build active file" }

\* lines 200-211: the call up to its first return; the file is read with
\* getRawTasksJson
EnsRead(p, taskName) ==
    /\ ens[p].pc = "idle"
    /\ taskName \in TaskLabels
    /\ LET raw == RawTasksJson
           had == file.state = "ok" /\ FindLabel(file.tasks, taskName)
           call == [IdleCall EXCEPT !.label = taskName, !.hadLabel = had]
       IN ens' = [ens EXCEPT ![p] =
                    IF TasksJsonPathDefined /\ file.state /= "absent" /\ ParseFails
                    THEN [call EXCEPT !.pc = "failed", !.err = failedToParseTasksJson]
                    ELSE IF SelectedInFile(raw, taskName)
                    THEN [call EXCEPT !.pc = "done", !.raw = raw]
                    ELSE [call EXCEPT !.pc = "synth", !.raw = raw]]
    /\ UNCHANGED <<file, envVars, provVars, termVars>>

\* lines 213-237: getTasks(true), the search for the task, the new record
EnsSynthesize(p) ==
    /\ ens[p].pc = "synth"
    /\ LET out == GetTasks(TRUE)
           found == {i \in 1..Len(out.tasks) : out.tasks[i].name = ens[p].label}
           selectedTask == out.tasks[CHOOSE i \in found : \A j \in found : i <= j]
           raw == [version |-> "2.0.0",
                   tasks |-> PushIfAbsent(ens[p].raw.tasks, selectedTask)]
       IN /\ tasks' = out.cache
          /\ ens' = [ens EXCEPT ![p] =
                       IF out.kind = "throw"
                       THEN [@ EXCEPT !.pc = "failed", !.err = out.err]
                       ELSE IF found = {}
                       THEN [@ EXCEPT !.pc = "failed", !.err = NoSelectedTaskError]
                       ELSE IF ~TasksJsonPathDefined
                       THEN [@ EXCEPT !.pc = "failed", !.err = NoTasksJsonPathError,
                                      !.raw = raw]
                       ELSE [@ EXCEPT !.pc = "write", !.raw = raw]]
    /\ UNCHANGED <<file, called, ret, prev, envVars, termVars>>

\* line 239: util.writeFileText completes
EnsWrite(p) ==
    /\ ens[p].pc = "write"
    /\ file' = Stringified(ens[p].raw)
    /\ ens' = [ens EXCEPT ![p] = [@ EXCEPT !.pc = "done", !.wrote = TRUE]]
    /\ UNCHANGED <<envVars, provVars, termVars>>

\* the caller has the result; the next call can start
EnsReturn(p) ==
    /\ ens[p].pc \in {"done", "failed"}
    /\ ens' = [ens EXCEPT ![p] = IdleCall]
    /\ UNCHANGED <<file, envVars, provVars, termVars>>

\* lines 37-42: provideTasks called by the host while merges are in progress; only
\* its effect on this.tasks is kept
ProvideTasksDuringMerge ==
    /\ tasks' = ProvideTasksResult.cache
    /\ UNCHANGED <<called, ret, prev, envVars, ensVars, termVars>>

UserTask ==
    [type |-> "shell", label |-> "build",
     command |-> [quoted |-> FALSE, path |-> <<"make">>], args |-> <<>>,
     options |-> [cwd |-> <<".">>], problemMatcher |-> "",
     group |-> [kind |-> "none", isDefault |-> FALSE]]

\* tasks.json as the user can have left it: none, one jsonc.parse rejects, one
\* with comments and a task, one without tasks
InitialFiles ==
    { NoFile,
      [state |-> "bad", comments |-> FALSE, version |-> "", tasks |-> <<>>],
      [state |-> "ok", comments |-> TRUE, version |-> "0.1.0", tasks |-> <<UserTask>>],
      [state |-> "ok", comments |-> FALSE, version |-> "2.0.0", tasks |-> <<>>] }

InitEns ==
    /\ editor \in {NoEditor, [open |-> TRUE, name |-> <<"m", ".", "c", "p", "p">>]}
    /\ hasFolder \in BOOLEAN
    /\ folder = <<"/", "w1">>
    /\ clientOk = TRUE
    /\ rootState \in {"ok", "noUri"}
    /\ isWindows = FALSE
    /\ userCompiler = [defined |-> TRUE, compilerPath |-> <<>>, compilerName |-> "",
                       additionalArgs |-> <<>>]
    /\ knownCompilers = [defined |-> TRUE, list |-> SubSeq(KnownPool, 1, 2)]
    /\ InitProvider
    /\ file \in InitialFiles
    /\ ens = [p \in EnsureCalls |-> IdleCall]
    /\ InitTermIdle

NextEns ==
    \/ ProvideTasksDuringMerge
    \/ \E p \in EnsureCalls, taskName \in TaskLabels : EnsRead(p, taskName)
    \/ \E p \in EnsureCalls : EnsSynthesize(p)
    \/ \E p \in EnsureCalls : EnsWrite(p)
    \/ \E p \in EnsureCalls : EnsReturn(p)

\* ensureBuildTaskExists calls, with provideTasks calls among them
SpecEns == InitEns /\ [][NextEns]_vars

-----------------------------------------------------------------------------
(* Claims about synthesis, checked under SpecSynth.  ret is the outcome of the
   latest synthesis call and is cleared by every change of the environment, so
   in a state with ret.kind /= "none" the environment is the one of that call. *)

\* the extensions the header rule names (lower case), and the missing extension
ClaimHeaderExts ==
    { <<".", "h">>, <<".", "h", "p", "p">>, <<".", "h", "h">>, <<".", "h", "x", "x">>,
      <<".", "h", "+", "+">>, <<".", "h", "p">>, <<".", "i", "i">>,
      <<".", "i", "n", "l">>, <<".", "i", "d", "l">>, <<>> }

ActiveFileIsHeader == editor.open /\ ExtName(editor.name) \in ClaimHeaderExts

\* C2: whenever the active file's extension is a header extension or is missing,
\* every synthesis call returns an empty sequence, whatever calls came earlier.
C2_HeaderAlwaysEmpty ==
    (ret.kind /= "none" /\ ActiveFileIsHeader) => (ret.kind = "ok" /\ ret.tasks = <<>>)

\* the language class of a .c / .cpp file
ClaimMatchesClass(info) ==
    IF ExtName(editor.name) = <<".", "c">> THEN info.isC ELSE ~info.isC

\* a known compiler the claim counts: right language class, basename other than
\* the user override's compiler name, path runnable on the host
ClaimCounts(info) ==
    /\ ClaimMatchesClass(info)
    /\ BaseName(info.path) /= userCompiler.compilerName
    /\ ~(isWindows /\ StartsWithSlash(info.path))

ClaimValidOverride ==
    /\ userCompiler.defined
    /\ Trim(userCompiler.compilerPath) /= <<>>
    /\ ~(isWindows /\ StartsWithSlash(Trim(userCompiler.compilerPath)))

ClaimCount ==
    Cardinality({i \in 1..Len(knownCompilers.list) : ClaimCounts(knownCompilers.list[i])})
        + (IF ClaimValidOverride THEN 1 ELSE 0)

FirstSynthesisOfCFile ==
    /\ ret.kind = "ok" /\ ret.first
    /\ editor.open /\ ExtName(editor.name) \in {<<".", "c">>, <<".", "c", "p", "p">>}
    /\ clientOk
    /\ knownCompilers.defined /\ knownCompilers.list /= <<>>

\* C3: for a .c or .cpp file and a nonempty known-compiler list, the first
\* synthesis returns (eligible known compilers) + (1 if a valid user override)
\* descriptors, the user override present or absent.
C3_DescriptorCount == FirstSynthesisOfCFile => Len(ret.tasks) = ClaimCount

\* the same count, stated only for calls where getCurrentCompilerPathAndArgs()
\* returned a value: what the code does satisfy
C3_CountWhenUserCompilerDefined ==
    (FirstSynthesisOfCFile /\ userCompiler.defined) => Len(ret.tasks) = ClaimCount

\* C5 as stated: when no active file exists, or no workspace folder (client root)
\* can be resolved, synthesis returns an empty sequence and never raises.
C5_NoTargetEmptyNeverRaises ==
    (ret.kind /= "none" /\ (~editor.open \/ rootState /= "ok"))
        => (ret.kind = "ok" /\ ret.tasks = <<>>)

\* C5 amended: with no active editor synthesis does not raise and returns the
\* empty sequence or the list an earlier call cached; with no client root URI or
\* no workspace folder for it, synthesis returns no newly built descriptor: it
\* returns the empty sequence or the cached list, or raises the error of getTask
\* that names what is missing.
C5_NoTargetAmended ==
    /\ (ret.kind /= "none" /\ ~editor.open)
           => (ret.kind = "ok" /\ (ret.tasks = <<>> \/ ret.fromCache))
    /\ (ret.kind /= "none" /\ rootState /= "ok")
           => \/ ret.kind = "ok" /\ (ret.tasks = <<>> \/ ret.fromCache)
              \/ /\ ret.kind = "throw"
                 /\ ret.err = (IF rootState = "noUri" THEN NoClientUriError
                                                      ELSE NoTargetError)

\* a synthesis that got to build a descriptor and raised for want of a
\* workspace folder of the client root
C5_Witness ==
    /\ ret.kind = "throw" /\ ~ret.fromCache
    /\ rootState = "noTarget" /\ ret.err = NoTargetError

\* C6: within the sequence one synthesis call returns, no two descriptors have
\* the same label.
C6_LabelsUnique ==
    ret.kind = "ok" =>
        \A i, j \in 1..Len(ret.tasks) :
            i /= j => ret.tasks[i].definition.label /= ret.tasks[j].definition.label

\* a synthesis that got to filter the compilers and was left with none
NothingLeftAfterFiltering ==
    /\ ret.kind /= "none" /\ ~ret.fromCache
    /\ editor.open /\ clientOk
    /\ LET fileExt == ExtName(editor.name)
       IN /\ ~IsHeader(fileExt)
          /\ FileIsCpp(fileExt) \/ FileIsC(fileExt)
          /\ KnownCompilerPaths(FileIsCpp(fileExt), FileIsC(fileExt)).list = <<>>
    /\ UserCompilerPath = <<>>

\* C7: whenever filtering leaves no known compiler and no user override exists,
\* synthesis returns an empty sequence without raising and reports
\* noCompilerFound, with no list supplied and with a list filtered down to empty.
C7_NoCompilerFoundReported ==
    NothingLeftAfterFiltering =>
        (ret.kind = "ok" /\ ret.tasks = <<>> /\ "noCompilerFound" \in ret.telemetry)

\* what C7 says for the case where the discovery service supplies no list
C7_ReportedWhenNoList ==
    (NothingLeftAfterFiltering /\ ~knownCompilers.defined) =>
        (ret.kind = "ok" /\ ret.tasks = <<>> /\ "noCompilerFound" \in ret.telemetry)

\* labels, commands and args of a descriptor sequence
Descriptors(l) ==
    [i \in 1..Len(l) |-> [label |-> l[i].definition.label,
                          command |-> l[i].definition.command,
                          args |-> l[i].definition.args]]

\* C10: two synthesis calls with no change of environment between them return
\* descriptors with identical labels, commands and args, whichever of
\* provideTasks / getTasks(appendSourceToName) each call is.
C10_SynthesisIdempotent ==
    (prev.kind = "ok" /\ ret.kind /= "none")
        => (ret.kind = "ok" /\ Descriptors(ret.tasks) = Descriptors(prev.tasks))

\* a second call asking for source-prefixed labels after a first that built two
\* descriptors: it returns those two
C10_Witness ==
    /\ prev.kind = "ok" /\ Len(prev.tasks) = 2
    /\ ret.kind = "ok" /\ ret.call = "getTasks(true)" /\ Len(ret.tasks) = 2
-----------------------------------------------------------------------------
(* Claims about the build terminal, checked under SpecTerm *)

CloseIndexes == {i \in 1..Len(events) : events[i].type = "close"}

\* C1: for every open() and every sequence of marker-path events and
\* child-process exits after it, exactly one completion signal (close event) is
\* emitted on the terminal: never a second one, and one once every child exited.
C1_ExactlyOneCompletion ==
    /\ Cardinality(CloseIndexes) <= 1
    /\ (watcher /= "none" /\ inflight = 0) => Cardinality(CloseIndexes) = 1

\* C9: every completion signal carries exit code 0, after a failed and after a
\* successful child process alike, and the notice telling the outcome is among
\* the two output events before it.
C9_CloseCodeZero ==
    \A i \in CloseIndexes :
        /\ events[i].code = 0
        /\ i >= 3
        /\ \/ events[i - 2] = Write(ErrorNotice)
           \/ events[i - 1] = Write(SuccessNotice)

\* a failed build and a successful build have both completed
C9_Witness ==
    /\ \E i \in CloseIndexes : events[i - 2] = Write(ErrorNotice)
    /\ \E i \in CloseIndexes : events[i - 1] = Write(SuccessNotice)
-----------------------------------------------------------------------------
(* Claims about ensureBuildTaskExists, checked under SpecEns *)

CountLabel(list, taskName) == Cardinality({i \in 1..Len(list) : list[i].label = taskName})

\* C4: ensureBuildTaskExists is idempotent: when a call with label L completes
\* successfully tasks.json holds exactly one record labelled L; a call with L
\* made while tasks.json holds a record labelled L never writes the file, so the
\* list stays what it was after the first call; and the list never holds two
\* records with the same label.
C4_EnsureIdempotent ==
    /\ [][\A p \in EnsureCalls :
            (ens[p].pc /= "done" /\ ens'[p].pc = "done")
                => (file'.state = "ok" /\ CountLabel(file'.tasks, ens'[p].label) = 1)]_vars
    /\ [](\A p \in EnsureCalls : ens[p].hadLabel => ~ens[p].wrote)
    /\ [](\A taskName \in TaskLabels : CountLabel(file.tasks, taskName) <= 1)

\* a call has written a synthesized record into a list that held the user's task,
\* and a later call with the same label has returned without writing
C4_Witness ==
    \E p \in EnsureCalls :
        /\ ens[p].pc = "done" /\ ens[p].hadLabel /\ ~ens[p].wrote
        /\ ens[p].label = "C/C++: g++ build active file"
        /\ Len(file.tasks) = 2

\* C8: if reading tasks.json fails to parse, ensureBuildTaskExists raises an
\* error with the failedToParseTasksJson message and does not write the file,
\* which still is the text that failed to parse.
C8_ParseFailureRaised ==
    \A p \in EnsureCalls :
        /\ (ens[p].pc /= "idle" /\ TasksJsonPathDefined /\ file.state = "bad")
               => /\ ens[p].pc = "failed"
                  /\ ens[p].err = failedToParseTasksJson
                  /\ ~ens[p].wrote
        /\ ens[p].err = failedToParseTasksJson
               => (ens[p].pc = "failed" /\ ~ens[p].wrote /\ file.state = "bad")

\* a call has failed on a tasks.json that does not parse
C8_Witness ==
    \E p \in EnsureCalls :
        /\ ens[p].pc = "failed" /\ ens[p].err = failedToParseTasksJson
        /\ file.state = "bad"
-----------------------------------------------------------------------------
(* Claims C11..C20 *)

\* the output path without extension, as the descriptors name it
ClaimOutput == "${fileDirname}" \o Sep \o "${fileBasenameNoExtension}"

ClaimMsvcArgs == <<"/Zi", "/EHsc", "/Fe:", ClaimOutput \o ".exe", "${file}">>

ClaimGccArgs == <<"-g", "${file}", "-o", ClaimOutput \o (IF isWindows THEN ".exe" ELSE "")>>

\* a descriptor has the base args of its dialect first and the working directory
\* of its dialect; what follows the base args is the user's additional args
ClaimDescriptorShape(d, isLast) ==
    LET isCl == BaseName(d.command.path) = "cl.exe"
        base == IF isCl THEN ClaimMsvcArgs ELSE ClaimGccArgs
        extra == SubSeq(d.args, Len(base) + 1, Len(d.args))
    IN /\ Len(d.args) >= Len(base)
       /\ SubSeq(d.args, 1, Len(base)) = base
       /\ d.options.cwd = (IF isCl THEN <<"${workspaceFolder}">> ELSE DirName(d.command.path))
       /\ extra /= <<>> => (isLast /\ extra = userCompiler.additionalArgs)

\* C11: every descriptor built for a compiler named exactly cl.exe has args /Zi,
\* /EHsc, /Fe:, <output>.exe, <source> and the workspace-root placeholder as
\* working directory; every other descriptor has args -g, <source>, -o, <output>
\* and the compiler's directory; user-supplied args come only after the base args.
C11_DialectArgsAndCwd ==
    ret.kind = "ok" =>
        \A i \in 1..Len(ret.tasks) :
            ClaimDescriptorShape(ret.tasks[i].definition, i = Len(ret.tasks))

\* a synthesis returned a cl.exe descriptor and a descriptor with a user argument
C11_Witness ==
    /\ ret.kind = "ok"
    /\ \E i \in 1..Len(ret.tasks) : BaseName(ret.tasks[i].definition.command.path) = "cl.exe"
    /\ \E i \in 1..Len(ret.tasks) :
           /\ BaseName(ret.tasks[i].definition.command.path) = "gcc"
           /\ Len(ret.tasks[i].definition.args) = 5
           /\ ret.tasks[i].definition.args[5] = "-Wall"
\* the source-prefixed label of a compiler
ClaimPrefixedLabel(compilerPath) ==
    "C/C++: " \o BaseName(compilerPath) \o " build active file"

\* the labels a source-prefixed synthesis gives in the present environment
ClaimPrefixedLabels ==
    IF editor.open /\ clientOk /\ rootState = "ok"
    THEN {ClaimPrefixedLabel(knownCompilers.list[i].path) :
             i \in {j \in 1..Len(knownCompilers.list) : ClaimCounts(knownCompilers.list[j])}}
    ELSE {}

\* C12: whenever ensureBuildTaskExists does not find the label in tasks.json and
\* synthesizes the candidates, every candidate it searches has a source-prefixed
\* label, after any earlier provideTasks / getTasks calls; so a label of a
\* source-prefixed synthesis is found and the 'no match' error is not raised for it.
C12_CandidatesSourcePrefixed ==
    [][\A p \in EnsureCalls :
         (ens[p].pc = "synth" /\ ens'[p].pc /= "synth") =>
            /\ \A i \in 1..Len(GetTasks(TRUE).tasks) :
                  GetTasks(TRUE).tasks[i].name
                      = ClaimPrefixedLabel(GetTasks(TRUE).tasks[i].definition.command.path)
            /\ ens[p].label \in ClaimPrefixedLabels
                  => ens'[p].err /= NoSelectedTaskError]_vars

\* what C12 says, for the merges that find this.tasks unset
C12_PrefixedWhenNotCached ==
    [][\A p \in EnsureCalls :
         (ens[p].pc = "synth" /\ ens'[p].pc /= "synth" /\ ~tasks.set) =>
            /\ \A i \in 1..Len(GetTasks(TRUE).tasks) :
                  GetTasks(TRUE).tasks[i].name
                      = ClaimPrefixedLabel(GetTasks(TRUE).tasks[i].definition.command.path)
            /\ ens[p].label \in ClaimPrefixedLabels
                  => ens'[p].err /= NoSelectedTaskError]_vars

\* the terminal of the task as getTask built it, before any launch
ClaimDescriptor ==
    CHOOSE t \in {TerminalOf(GetTask(c, FALSE, <<>>)) : c \in TermCompilers} :
        t.command = pty.command /\ t.args = pty.args

\* the step is a launch made while the active editor supplies the values
LaunchWithContext == launches' = launches + 1 /\ AdditionalEnvironment.defined

\* C13: at every launch (the first one, one triggered by the marker, one of a
\* later execution of the task) the command, every argument and the working
\* directory are the descriptor's values with the placeholders replaced by the
\* values of the editor and workspace of that moment
C13_ResolvedAtEveryLaunch ==
    [][LaunchWithContext =>
          /\ lastExec'.command = ResolvePath(ClaimDescriptor.command.path, AdditionalEnvironment)
          /\ \A i \in 1..Len(ClaimDescriptor.args) :
                 lastExec'.args[i].text
                     = ResolveVariables(ClaimDescriptor.args[i], AdditionalEnvironment)
          /\ lastExec'.cwd = ResolvePath(ClaimDescriptor.cwd, AdditionalEnvironment)]_vars

\* the command and the arguments are resolved anew at every launch
C13_CommandAndArgsResolved ==
    [][LaunchWithContext =>
          /\ lastExec'.command = ResolvePath(ClaimDescriptor.command.path, AdditionalEnvironment)
          /\ \A i \in 1..Len(ClaimDescriptor.args) :
                 lastExec'.args[i].text
                     = ResolveVariables(ClaimDescriptor.args[i], AdditionalEnvironment)]_vars

\* C14: the completion signal is the last event: once a close event was
\* emitted on the terminal no output chunk is emitted on it any more, whatever
\* the order of marker-path events and child-process exits
C14_CompletionIsLast ==
    \A i \in CloseIndexes : \A j \in 1..Len(events) : j > i => events[j].type /= "write"

\* with one launch only (no marker-path event) the close event is the last one
C14_LastWhenOneLaunch ==
    launches <= 1 => \A i \in CloseIndexes : i = Len(events)

\* C15: on each child-process exit the terminal emits the stdout and then the
\* notice, on failure as on success, and the close event follows them
C15_StdoutThenNotice ==
    \A i \in CloseIndexes :
        /\ i >= 3
        /\ events[i - 2].type = "write" /\ events[i - 2].text \in Stdouts
        /\ events[i - 1].type = "write"
        /\ events[i - 1].text \in {ErrorNotice, SuccessNotice}

\* C15 as the program has it: on failure the failure notice and then the
\* stdout, on success the stdout and then the success notice; the close event
\* follows the two output events
C15_ExitOrder ==
    \A i \in CloseIndexes :
        /\ i >= 3
        /\ events[i - 2].type = "write" /\ events[i - 1].type = "write"
        /\ \/ events[i - 2].text = ErrorNotice /\ events[i - 1].text \in Stdouts
           \/ events[i - 2].text \in Stdouts /\ events[i - 1].text = SuccessNotice

\* a child process that wrote a warning failed: the failure notice, the
\* warning and the close event were emitted in this order
C15_Witness ==
    \E i \in CloseIndexes :
        /\ i >= 3
        /\ events[i - 2].text = ErrorNotice
        /\ events[i - 1].text = "m.c:1: warning\r\n"

-----------------------------------------------------------------------------
(* Claims C17, C20 about the merge, checked under SpecEns *)

\* the records of tasks.json as it is on disk
PersistedTasks == IF file.state = "ok" THEN file.tasks ELSE <<>>

\* C17: a call of ensureBuildTaskExists that writes tasks.json leaves every
\* record the file holds where it is and as it is, and adds at most one record,
\* at the end
C17_RecordsKeptOneAppended ==
    [][file' /= file =>
          /\ file'.state = "ok"
          /\ Len(file'.tasks) \in {Len(PersistedTasks), Len(PersistedTasks) + 1}
          /\ \A i \in 1..Len(PersistedTasks) : file'.tasks[i] = PersistedTasks[i]]_vars

\* C20: when two calls with different labels have both written tasks.json and
\* completed, however their reads and writes were interleaved, tasks.json has a
\* record for each of the two labels
C20_NoLostUpdate ==
    \A p, q \in EnsureCalls :
        (/\ p /= q
         /\ ens[p].pc = "done" /\ ens[p].wrote
         /\ ens[q].pc = "done" /\ ens[q].wrote
         /\ ens[p].label /= ens[q].label)
            => /\ FindLabel(PersistedTasks, ens[p].label)
               /\ FindLabel(PersistedTasks, ens[q].label)

-----------------------------------------------------------------------------
(* Claims C18, C19 about this.tasks, checked under SpecSynth *)

\* C18: when a synthesis call raises while it builds the descriptors (no
\* client root URI, no target workspace folder), this.tasks stays unset, so
\* that a later call synthesizes and does not return a cached list
C18_CacheUnsetAfterRaise ==
    ret.kind = "throw" => ~tasks.set

\* C19: an empty result is never cached: after a call that synthesized the
\* empty sequence this.tasks is unset, so that a later call with a buildable
\* file and an eligible compiler returns descriptors
C19_EmptyNeverCached ==
    (ret.kind = "ok" /\ ~ret.fromCache /\ ret.tasks = <<>>) => ~tasks.set

\* the empty results of the checks before the compilers are read (no editor,
\* header, unrecognized extension, language service disabled) are not cached
C19_EarlyEmptyNotCached ==
    (/\ ret.kind = "ok" /\ ~ret.fromCache /\ ret.tasks = <<>>
     /\ \/ ~editor.open
        \/ IsHeader(ExtName(editor.name))
        \/ ~(FileIsCpp(ExtName(editor.name)) \/ FileIsC(ExtName(editor.name)))
        \/ ~clientOk)
        => ~tasks.set
====
